---------------------------- MODULE Spec2Model ----------------------------
(***************************************************************************)
(* Model of the spaceship prototype's numerical core:                      *)
(*   - forces.rs : ExternalForceSet (get / set / combine) and the          *)
(*                 update_external_forces system;                          *)
(*   - main.rs   : the Update schedule, fire_thrusters, apply_gravity;     *)
(*   - orbit.rs  : cartesian_to_polar and Orbit::from_pos_dir.             *)
(*                                                                         *)
(* Floating point (f32 and f64 alike) is modelled as decimal floating      *)
(* point with Prec significant digits, round-half-even after every         *)
(* operation, with the IEEE special values +inf, -inf and NaN.  The sign   *)
(* of zero is not modelled: every zero is +0.                              *)
(***************************************************************************)
EXTENDS Integers, Sequences, FiniteSets, TLC

\* Significant decimal digits kept by the modelled floats.
Prec == 4

----------------------------------------------------------------------------
(* Floating-point values and arithmetic                                    *)

RECURSIVE Pow10(_)
Pow10(n) == IF n = 0 THEN 1 ELSE 10 * Pow10(n - 1)

RECURSIVE NumDigits(_)
NumDigits(n) == IF n < 10 THEN 1 ELSE 1 + NumDigits(n \div 10)

Abs(n) == IF n < 0 THEN -n ELSE n

Sgn(n) == IF n < 0 THEN -1 ELSE IF n > 0 THEN 1 ELSE 0

\* A finite nonzero float s * m * 10^e with Pow10(Prec-1) <= m < Pow10(Prec).
Num(s, m, e) == [k |-> "num", s |-> s, m |-> m, e |-> e]

FZero == [k |-> "num", s |-> 0, m |-> 0, e |-> 0]

Inf(s) == [k |-> "inf", s |-> s, m |-> 0, e |-> 0]

NaN == [k |-> "nan", s |-> 0, m |-> 0, e |-> 0]

IsNaN(a) == a.k = "nan"

IsInf(a) == a.k = "inf"

IsFinite(a) == a.k = "num"

\* The float nearest to s * n * 10^e (n > 0), ties to the even mantissa.
Round(s, n, e) ==
    IF n = 0 THEN FZero
    ELSE LET d == NumDigits(n) IN
         IF d <= Prec
         THEN Num(s, n * Pow10(Prec - d), e - (Prec - d))
         ELSE LET sh   == d - Prec
                  p    == Pow10(sh)
                  q    == n \div p
                  r    == n % p
                  half == p \div 2
                  q2   == IF r > half \/ (r = half /\ q % 2 = 1) THEN q + 1 ELSE q
              IN IF q2 = Pow10(Prec)
                 THEN Num(s, Pow10(Prec - 1), e + sh + 1)
                 ELSE Num(s, q2, e + sh)

\* A decimal literal n * 10^e.
Dec(n, e) == Round(Sgn(n), Abs(n), e)

FNeg(a) == [a EXCEPT !.s = -a.s]

FAdd(a, b) ==
    IF IsNaN(a) \/ IsNaN(b) THEN NaN
    ELSE IF IsInf(a) THEN (IF IsInf(b) /\ b.s # a.s THEN NaN ELSE a)
    ELSE IF IsInf(b) THEN b
    ELSE IF a.s = 0 THEN b
    ELSE IF b.s = 0 THEN a
    ELSE LET hi  == IF a.e >= b.e THEN a ELSE b
             lo  == IF a.e >= b.e THEN b ELSE a
             gap == hi.e - lo.e
         IN IF gap > Prec + 1 THEN hi
            ELSE LET n == hi.s * hi.m * Pow10(gap) + lo.s * lo.m
                 IN Round(Sgn(n), Abs(n), lo.e)

FSub(a, b) == FAdd(a, FNeg(b))

FMul(a, b) ==
    IF IsNaN(a) \/ IsNaN(b) THEN NaN
    ELSE IF IsInf(a) \/ IsInf(b)
         THEN (IF a.s = 0 \/ b.s = 0 THEN NaN ELSE Inf(a.s * b.s))
    ELSE IF a.s = 0 \/ b.s = 0 THEN FZero
    ELSE Round(a.s * b.s, a.m * b.m, a.e + b.e)

FDiv(a, b) ==
    IF IsNaN(a) \/ IsNaN(b) THEN NaN
    ELSE IF IsInf(a) THEN (IF IsInf(b) THEN NaN
                           ELSE Inf(IF b.s = 0 THEN a.s ELSE a.s * b.s))
    ELSE IF IsInf(b) THEN FZero
    ELSE IF b.s = 0 THEN (IF a.s = 0 THEN NaN ELSE Inf(a.s))
    ELSE IF a.s = 0 THEN FZero
    ELSE LET num == a.m * Pow10(Prec + 1)
             q   == num \div b.m
             r   == num % b.m
         IN Round(a.s * b.s, 10 * q + (IF r # 0 THEN 1 ELSE 0),
                  a.e - b.e - Prec - 2)

\* The largest s in lo..hi with s * s <= n (lo * lo <= n < (hi+1) * (hi+1)).
RECURSIVE ISqrtIn(_, _, _)
ISqrtIn(n, lo, hi) ==
    IF lo = hi THEN lo
    ELSE LET mid == (lo + hi + 1) \div 2
         IN IF mid * mid <= n THEN ISqrtIn(n, mid, hi) ELSE ISqrtIn(n, lo, mid - 1)

ISqrt(n) == ISqrtIn(n, 0, 46340)

FSqrt(a) ==
    IF IsNaN(a) THEN NaN
    ELSE IF a.s < 0 THEN NaN
    ELSE IF IsInf(a) THEN a
    ELSE IF a.s = 0 THEN FZero
    ELSE LET j  == IF (a.e - Prec) % 2 = 0 THEN Prec ELSE Prec + 1
             n  == a.m * Pow10(j)
             s  == ISqrt(n)
             r  == n - s * s
             e2 == (a.e - j) \div 2
         IN IF NumDigits(s) <= Prec
            THEN Round(1, IF r > s THEN s + 1 ELSE s, e2)
            ELSE Round(1, 10 * s + (IF r # 0 THEN 1 ELSE 0), e2 - 1)

\* a < b and a <= b; false when either side is NaN.
FLt(a, b) == LET d == FSub(a, b) IN ~IsNaN(a) /\ ~IsNaN(b) /\ ~IsNaN(d) /\ d.s < 0

FLe(a, b) == ~IsNaN(a) /\ ~IsNaN(b) /\ (a = b \/ FLt(a, b))

----------------------------------------------------------------------------
(* glam Vec3 and bevy_rapier3d ExternalForce                               *)

Vec3(a, b, c) == <<a, b, c>>

Vec3ZERO == Vec3(FZero, FZero, FZero)

VecAdd(u, v) == <<FAdd(u[1], v[1]), FAdd(u[2], v[2]), FAdd(u[3], v[3])>>

VecSub(u, v) == <<FSub(u[1], v[1]), FSub(u[2], v[2]), FSub(u[3], v[3])>>

VecScale(u, f) == <<FMul(u[1], f), FMul(u[2], f), FMul(u[3], f)>>

ExternalForce(f, t) == [force |-> f, torque |-> t]

\* ExternalForce::default()
ExternalForceDefault == ExternalForce(Vec3ZERO, Vec3ZERO)

\* impl Add for ExternalForce
AddForce(f1, f2) ==
    ExternalForce(VecAdd(f1.force, f2.force), VecAdd(f1.torque, f2.torque))

----------------------------------------------------------------------------
(* ExternalForceSet: an IndexMap<TypeId, ExternalForce>, modelled as the   *)
(* sequence of its entries in the map's iteration order.                   *)

TypeIds == {"ThrusterForce", "GravityForce", "OtherForce"}

Entry(k, v) == [key |-> k, value |-> v]

\* ExternalForceSet::default()
ExternalForceSetDefault == <<>>

\* The position of key T in the map, 0 when it is absent.
IndexOf(forces, T) ==
    IF \E i \in 1..Len(forces) : forces[i].key = T
    THEN CHOOSE i \in 1..Len(forces) : forces[i].key = T
    ELSE 0

ContainsKey(forces, T) == IndexOf(forces, T) # 0

KeysOf(forces) == {forces[i].key : i \in 1..Len(forces)}

\* ExternalForceSet::get::<T>
get(forces, T) ==
    IF IndexOf(forces, T) # 0
    THEN forces[IndexOf(forces, T)].value
    ELSE ExternalForceDefault

SetAlwaysAppends(forces, T, force) == Append(forces, Entry(T, force))

\* ExternalForceSet::set::<T>, i.e. IndexMap::insert: replace in place or append
set(forces, T, force) ==
    IF IndexOf(forces, T) # 0
    THEN [forces EXCEPT ![IndexOf(forces, T)] = Entry(T, force)]
    ELSE Append(forces, Entry(T, force))

FoldKeepsLast(acc, forces) ==
    IF forces = <<>> THEN acc ELSE forces[Len(forces)].value

\* .values().fold(acc, |f1, &f2| f1 + f2)
RECURSIVE Fold(_, _)
Fold(acc, forces) ==
    IF forces = <<>> THEN acc
    ELSE Fold(AddForce(acc, Head(forces).value), Tail(forces))

\* ExternalForceSet::combine
combine(forces) == Fold(ExternalForceDefault, forces)

----------------------------------------------------------------------------
(* State                                                                   *)

VARIABLES
    forces,      \* entity -> its ExternalForceSet component
    extForce,    \* entity -> its ExternalForce component (read by the integrator)
    ret,         \* <<>> or <<r>>: the last API call when it was a get or an update
    written,     \* history: entity -> TypeId -> <<>> or <<last force passed to set>>
    order,       \* history: entity -> TypeIds in the order of their first set
    ran,         \* the Update systems that have run in the current frame, in order
    pressed,     \* Input<KeyCode>: the keys held during the current frame
    rotation,    \* Mat3::from_quat(transform.rotation) of the ship
    translation, \* transform.translation of the ship
    attractors,  \* the GravityAttractor entities, in query iteration order
    args,        \* the arguments of Orbit::from_pos_dir
    orbit        \* <<>> or <<o>>: the Orbit returned for args

vars == <<forces, extForce, ret, written, order, ran, pressed, rotation,
          translation, attractors, args, orbit>>

ledgerVars == <<forces, extForce, ret, written, order>>

frameVars == <<ran, pressed, rotation, translation, attractors>>

orbitVars == <<args, orbit>>

\* SpaceshipBundle::new: thruster_force, the ExternalForce the ship is spawned with
SpawnForce == ExternalForce(Vec3(FZero, Dec(-5, -1), FZero), Vec3ZERO)

\* Mat3 as its three rows; Mat3::mul_vec3
MulVec3(M, v) ==
    << FAdd(FAdd(FMul(M[1][1], v[1]), FMul(M[1][2], v[2])), FMul(M[1][3], v[3])),
       FAdd(FAdd(FMul(M[2][1], v[1]), FMul(M[2][2], v[2])), FMul(M[2][3], v[3])),
       FAdd(FAdd(FMul(M[3][1], v[1]), FMul(M[3][2], v[2])), FMul(M[3][3], v[3])) >>

One == Dec(1, 0)

Identity == << <<One, FZero, FZero>>, <<FZero, One, FZero>>, <<FZero, FZero, One>> >>

\* a quarter turn about the z axis
RotZ90 == << <<FZero, FNeg(One), FZero>>, <<One, FZero, FZero>>, <<FZero, FZero, One>> >>

----------------------------------------------------------------------------
(* Callers of the ExternalForceSet API (any system may call get and set)   *)

\* The entities that carry (ExternalForce, ExternalForceSet).
Bodies == {"ship", "probe"}

\* The contributors that write to each body's ledger.
Contributors(b) == IF b = "ship" THEN TypeIds ELSE {"GravityForce"}

Push == ExternalForce(Vec3(FZero, Dec(1, 4), FZero), Vec3ZERO)

Pull == ExternalForce(Vec3(FZero, Dec(-1, 4), FZero), Vec3(Dec(2, -1), FZero, FZero))

Nudge == ExternalForce(Vec3(FZero, Dec(1, 0), FZero), Vec3(FZero, FZero, Dec(-2, -1)))

\* The contributions contributor T passes to set.
Contributions(T) ==
    CASE T = "ThrusterForce" -> {Push, Nudge}
      [] T = "GravityForce"  -> {Pull, Nudge}
      [] T = "OtherForce"    -> {Nudge, Push}

\* The history of set calls, kept beside the map.
RecordSet(b, T, force) ==
    /\ written' = [written EXCEPT ![b][T] = <<force>>]
    /\ order' = [order EXCEPT ![b] = IF \E i \in 1..Len(@) : @[i] = T
                                     THEN @ ELSE Append(@, T)]

\* forces.set::<T>(force) on body b
CallSet(b, T, force) ==
    /\ forces' = [forces EXCEPT ![b] = set(@, T, force)]
    /\ RecordSet(b, T, force)
    /\ ret' = <<>>
    /\ UNCHANGED <<extForce, frameVars, orbitVars>>

GetOrInsertDefault(fs, T) ==
    IF ContainsKey(fs, T) THEN fs ELSE Append(fs, Entry(T, ExternalForceDefault))

\* get takes &self: the map after the call is the map before it
AfterGet(fs, T) == fs

\* forces.get::<T>() on body b
CallGet(b, T) ==
    /\ ret' = <<[call |-> "get", body |-> b, key |-> T, value |-> get(forces[b], T)]>>
    /\ forces' = [forces EXCEPT ![b] = AfterGet(@, T)]
    /\ UNCHANGED <<extForce, written, order, frameVars, orbitVars>>

PublishAccumulated(old, fs) == AddForce(old, combine(fs))

\* *force = forces.combine()
Publish(old, fs) == combine(fs)

\* the system update_external_forces: every entity of the query
update_external_forces ==
    /\ extForce' = [b \in DOMAIN forces |-> Publish(extForce[b], forces[b])]
    /\ UNCHANGED <<forces, written, order>>

\* update_external_forces run on its own
UpdateExternalForces ==
    /\ update_external_forces
    /\ ret' = <<[call |-> "update_external_forces"]>>
    /\ UNCHANGED <<frameVars, orbitVars>>

NoFrame ==
    /\ ran = <<>>
    /\ pressed = {}
    /\ rotation = Identity
    /\ translation = Vec3ZERO
    /\ attractors = <<>>

NoOrbit ==
    /\ args = <<>>
    /\ orbit = <<>>

Init ==
    /\ forces = [b \in Bodies |-> ExternalForceSetDefault]
    /\ extForce = [b \in Bodies |-> SpawnForce]
    /\ ret = <<>>
    /\ written = [b \in Bodies |-> [T \in TypeIds |-> <<>>]]
    /\ order = [b \in Bodies |-> <<>>]
    /\ NoFrame
    /\ NoOrbit

Next ==
    \/ \E b \in Bodies : \E T \in Contributors(b) :
          \E force \in Contributions(T) : CallSet(b, T, force)
    \/ \E b \in Bodies : \E T \in Contributors(b) : CallGet(b, T)
    \/ UpdateExternalForces

Spec == Init /\ [][Next]_vars

----------------------------------------------------------------------------
(* The application: one frame of the Update schedule after another.  The    *)
(* systems that touch neither ExternalForceSet nor ExternalForce            *)
(* (orbit_camera, debug_spaceship_orbit, close_on_esc) are left out.        *)

KeyCodes == {"Space", "W", "S", "Q", "E", "A", "D"}

\* The keys the player uses, at most MaxHeld of them in one frame.
PlayerKeys == {"Space", "W", "D"}

MaxHeld == 2

HeldSets == {K \in SUBSET PlayerKeys : Cardinality(K) <= MaxHeld}

\* Thrusters { strength: 1.0 }
ThrusterStrength == Dec(1, 0)

\* let torque = 0.2
Torque == Dec(2, -1)

keybinds ==
    << [bind |-> "W", vec |-> Vec3(Torque, FZero, FZero)],
       [bind |-> "S", vec |-> Vec3(FNeg(Torque), FZero, FZero)],
       [bind |-> "Q", vec |-> Vec3(FZero, Torque, FZero)],
       [bind |-> "E", vec |-> Vec3(FZero, FNeg(Torque), FZero)],
       [bind |-> "A", vec |-> Vec3(FZero, FZero, Torque)],
       [bind |-> "D", vec |-> Vec3(FZero, FZero, FNeg(Torque))] >>

\* The loop over keybinds from position i on: <<any_pressed, force.torque>>.
RECURSIVE KeybindLoop(_, _, _, _, _)
KeybindLoop(i, any, torque, held, rot) ==
    IF i > Len(keybinds) THEN <<any, torque>>
    ELSE IF keybinds[i].bind \in held
         THEN KeybindLoop(i + 1, TRUE, MulVec3(rot, keybinds[i].vec), held, rot)
         ELSE KeybindLoop(i + 1, any, torque, held, rot)

ThrusterTorqueKept(old, held, rot) == KeybindLoop(1, FALSE, old, held, rot)[2]

\* force.torque after the keybinds loop and the any_pressed test
ThrusterTorque(old, held, rot) ==
    LET r == KeybindLoop(1, FALSE, old, held, rot)
    IN IF ~r[1] THEN Vec3ZERO ELSE r[2]

\* force.force after the Space test
ThrusterThrust(held, rot) ==
    IF "Space" \in held
    THEN MulVec3(rot, Vec3(FZero, ThrusterStrength, FZero))
    ELSE Vec3ZERO

HasRun(sys) == \E i \in 1..Len(ran) : ran[i] = sys

\* The system fire_thrusters; query.single_mut() is the ship.
fire_thrusters ==
    /\ ~HasRun("fire_thrusters")
    /\ LET force == get(forces["ship"], "ThrusterForce")
           new   == ExternalForce(ThrusterThrust(pressed, rotation),
                                  ThrusterTorque(force.torque, pressed, rotation))
       IN /\ forces' = [forces EXCEPT !["ship"] = set(@, "ThrusterForce", new)]
          /\ RecordSet("ship", "ThrusterForce", new)
    /\ ran' = Append(ran, "fire_thrusters")
    /\ UNCHANGED <<extForce, ret, pressed, rotation, translation, attractors,
                   orbitVars>>

\* pub const G: f64 = 6.6e-11
G == Dec(66, -12)

PI == Dec(3142, -3)

\* PlanetBundle::new: density and mass
Density == Dec(2, 3)

PlanetMass(radius) ==
    FMul(FMul(FMul(FMul(FMul(FDiv(Dec(4, 0), Dec(3, 0)), PI), radius), radius),
              radius), Density)

\* Vec3::length, Vec3::distance, Vec3::normalize
Length(v) == FSqrt(FAdd(FAdd(FMul(v[1], v[1]), FMul(v[2], v[2])), FMul(v[3], v[3])))

Distance(u, v) == Length(VecSub(u, v))

Normalize(v) == VecScale(v, FDiv(One, Length(v)))

\* The force one attractor exerts on the ship (the body of apply_gravity's loop).
GravityOf(body, ship) ==
    LET distance  == Distance(ship, body.translation)
        fg        == FDiv(FMul(G, body.mass), FMul(distance, distance))
        direction == Normalize(VecSub(body.translation, ship))
    IN ExternalForce(VecScale(direction, fg), Vec3ZERO)

\* apply_gravity's loop over body_query from position i on.
RECURSIVE GravityLoop(_, _, _)
GravityLoop(fs, i, ship) ==
    IF i > Len(attractors) THEN fs
    ELSE GravityLoop(set(fs, "GravityForce", GravityOf(attractors[i], ship)),
                     i + 1, ship)

\* The system apply_gravity; query.single_mut() is the ship.
apply_gravity ==
    /\ ~HasRun("apply_gravity")
    /\ forces' = [forces EXCEPT !["ship"] = GravityLoop(@, 1, translation)]
    /\ IF attractors = <<>>
       THEN UNCHANGED <<written, order>>
       ELSE RecordSet("ship", "GravityForce",
                      GravityOf(attractors[Len(attractors)], translation))
    /\ ran' = Append(ran, "apply_gravity")
    /\ UNCHANGED <<extForce, ret, pressed, rotation, translation, attractors,
                   orbitVars>>

\* update_external_forces in the schedule: apply_gravity.before(update_external_forces)
run_update_external_forces ==
    /\ ~HasRun("update_external_forces")
    /\ HasRun("apply_gravity")
    /\ update_external_forces
    /\ ran' = Append(ran, "update_external_forces")
    /\ UNCHANGED <<ret, pressed, rotation, translation, attractors, orbitVars>>

\* SpaceshipBundle::new(.., Vec3::new(0.0, 100.0, 0.0))
ShipStart == Vec3(FZero, Dec(1, 2), FZero)

\* The poses the integrator moves the ship to.
Poses == { [rotation |-> Identity, translation |-> ShipStart],
           [rotation |-> RotZ90, translation |-> Vec3(FZero, Dec(3, 2), FZero)] }

\* setup: the planet, and a second attractor built the same way.
Planet == [mass |-> PlanetMass(Dec(1, 4)),
           translation |-> Vec3(FZero, Dec(-1, 2), FZero)]

Moon == [mass |-> PlanetMass(Dec(5, 3)),
         translation |-> Vec3(Dec(2, 2), Dec(1, 2), FZero)]

Worlds == {<<Planet>>, <<Planet, Moon>>, <<Moon, Planet>>}

\* The end of a frame: the integrator consumes ExternalForce and moves the ship,
\* and the input of the next frame is polled.
end_frame ==
    /\ HasRun("fire_thrusters") /\ HasRun("apply_gravity")
    /\ HasRun("update_external_forces")
    /\ ran' = <<>>
    /\ pressed' \in HeldSets
    /\ \E pose \in Poses : /\ rotation' = pose.rotation
                           /\ translation' = pose.translation
    /\ UNCHANGED <<ledgerVars, attractors, orbitVars>>

InitFrame ==
    /\ forces = [b \in {"ship"} |-> ExternalForceSetDefault]
    /\ extForce = [b \in {"ship"} |-> SpawnForce]
    /\ ret = <<>>
    /\ written = [b \in {"ship"} |-> [T \in TypeIds |-> <<>>]]
    /\ order = [b \in {"ship"} |-> <<>>]
    /\ ran = <<>>
    /\ pressed \in HeldSets
    /\ rotation = Identity
    /\ translation = ShipStart
    /\ attractors \in Worlds
    /\ NoOrbit

NextFrame ==
    \/ fire_thrusters
    \/ apply_gravity
    \/ run_update_external_forces
    \/ end_frame

SpecFrame == InitFrame /\ [][NextFrame]_vars

----------------------------------------------------------------------------
(* orbit.rs.  f64::atan and f64::sin are tabulated on the angles that the   *)
(* inputs below produce: vectors along an axis or a diagonal.               *)

HalfPi == Dec(1571, -3)

QuarterPi == Dec(7854, -4)

\* f64::atan
Atan(q) ==
    CASE IsNaN(q)      -> NaN
      [] IsInf(q)      -> IF q.s > 0 THEN HalfPi ELSE FNeg(HalfPi)
      [] q = FZero     -> FZero
      [] q = One       -> QuarterPi
      [] q = FNeg(One) -> FNeg(QuarterPi)

\* f64::sin of a non-negative angle
SinAbs(x) ==
    CASE x = FZero           -> FZero
      [] x = Dec(7854, -4)   -> Dec(7071, -4)
      [] x = Dec(7856, -4)   -> Dec(7072, -4)
      [] x = Dec(1571, -3)   -> One
      [] x = Dec(2356, -3)   -> Dec(7072, -4)
      [] x = Dec(3142, -3)   -> Dec(-4073, -7)

Sin(x) ==
    IF IsNaN(x) \/ IsInf(x) THEN NaN
    ELSE IF x.s < 0 THEN FNeg(SinAbs(FNeg(x)))
    ELSE SinAbs(x)

DVec2(a, b) == <<a, b>>

\* DVec2::length
Length2(v) == FSqrt(FAdd(FMul(v[1], v[1]), FMul(v[2], v[2])))

\* fn cartesian_to_polar(pos) -> (pos.length(), atan(pos.y / pos.x))
cartesian_to_polar(pos) == <<Length2(pos), Atan(FDiv(pos[2], pos[1]))>>

\* struct Orbit: the only value from_pos_dir can return
Orbit(a, e) == [type |-> "Orbit", semi_major_axis |-> a, eccentricity |-> e]

\* (2.0 * G * m) - (v * v * r)
Denominator(m, r, v) == FSub(FMul(FMul(Dec(2, 0), G), m), FMul(FMul(v, v), r))

\* Orbit::from_pos_dir
from_pos_dir(m, pos, vel) ==
    LET r     == cartesian_to_polar(pos)[1]
        theta == cartesian_to_polar(pos)[2]
        v     == cartesian_to_polar(vel)[1]
        psi   == cartesian_to_polar(vel)[2]
        a     == FDiv(FMul(FMul(G, m), r), Denominator(m, r, v))
        rvsin == FMul(FMul(r, v), Sin(FSub(psi, theta)))
        gma   == FMul(FMul(G, m), a)
        e     == FSqrt(FDiv(FNeg(FSub(FMul(rvsin, rvsin), gma)), gma))
    IN Orbit(a, e)

\* Orbit::periapsis and Orbit::apoapsis
periapsis(o) == FMul(o.semi_major_axis, FSub(One, o.eccentricity))

apoapsis(o) == FMul(o.semi_major_axis, FAdd(One, o.eccentricity))

\* The solver inputs.
OrbitMasses == {Dec(1, 11), PlanetMass(Dec(1, 4)), Dec(5972, 21)}

OrbitPositions ==
    { DVec2(Dec(132, -1), FZero), DVec2(Dec(2, 2), FZero), DVec2(Dec(42, 3), FZero),
      DVec2(Dec(-2, 2), FZero), DVec2(FZero, Dec(2, 2)), DVec2(Dec(1, 2), Dec(1, 2)),
      DVec2(FZero, FZero) }

OrbitVelocities ==
    { DVec2(FZero, FZero), DVec2(FZero, One), DVec2(One, FZero),
      DVec2(FZero, Dec(53, 0)), DVec2(FZero, Dec(-53, 0)), DVec2(FZero, Dec(3074, 0)),
      DVec2(Dec(1, 1), Dec(-1, 1)), DVec2(FZero, Dec(2, 1)) }

OrbitArgs ==
    {<<[m |-> m, pos |-> pos, v |-> v]>> :
        m \in OrbitMasses, pos \in OrbitPositions, v \in OrbitVelocities}

\* A caller computes the orbit of its arguments.
CallFromPosDir ==
    /\ args # <<>> /\ orbit = <<>>
    /\ orbit' = <<from_pos_dir(args[1].m, args[1].pos, args[1].v)>>
    /\ UNCHANGED <<args, ledgerVars, frameVars>>

\* The caller comes back with the state of another frame.
NextArgs ==
    /\ orbit # <<>>
    /\ args' \in OrbitArgs
    /\ orbit' = <<>>
    /\ UNCHANGED <<ledgerVars, frameVars>>

InitOrbit ==
    /\ args \in OrbitArgs
    /\ orbit = <<>>
    /\ forces = [b \in {"ship"} |-> ExternalForceSetDefault]
    /\ extForce = [b \in {"ship"} |-> SpawnForce]
    /\ ret = <<>>
    /\ written = [b \in {"ship"} |-> [T \in TypeIds |-> <<>>]]
    /\ order = [b \in {"ship"} |-> <<>>]
    /\ NoFrame

NextOrbit == CallFromPosDir \/ NextArgs

SpecOrbit == InitOrbit /\ [][NextOrbit]_vars

----------------------------------------------------------------------------
(* Properties of the ExternalForceSet API, checked under Spec              *)

IsGet(r) == r # <<>> /\ r[1].call = "get"

IsUpdate(r) == r # <<>> /\ r[1].call = "update_external_forces"

\* The TypeIds that have been passed to set on body b.
WrittenKeys(b) == {T \in TypeIds : written[b][T] # <<>>}

\* The left-to-right sum of the last written force of each key in keys.
RECURSIVE SumWritten(_, _)
SumWritten(keys, w) ==
    IF keys = <<>> THEN ExternalForceDefault
    ELSE AddForce(SumWritten(SubSeq(keys, 1, Len(keys) - 1), w),
                  w[keys[Len(keys)]][1])

\* Every reordering of the entries of a map.
Reorderings(fs) ==
    LET n == Len(fs)
        P == {f \in [1..n -> 1..n] : \A i, j \in 1..n : f[i] = f[j] => i = j}
    IN {[i \in 1..n |-> fs[f[i]]] : f \in P}

\* C2: after any sequence of set calls on a ledger, get(k) returns exactly the
\* contribution passed to the most recent set for k, whatever was set for other
\* keys: both for every key of every ledger and for the value a get call returned.
C2_GetReturnsLastSet ==
    /\ \A b \in DOMAIN forces : \A T \in WrittenKeys(b) :
          get(forces[b], T) = written[b][T][1]
    /\ IsGet(ret) /\ ret[1].key \in WrittenKeys(ret[1].body)
          => ret[1].value = written[ret[1].body][ret[1].key][1]

\* A get of ThrusterForce returns Nudge after the ship's ledger held Push for
\* ThrusterForce and Pull for GravityForce (their sum is what was published), so
\* the ThrusterForce entry has been overwritten beside another key.
C2_Witness ==
    /\ IsGet(ret) /\ ret[1].body = "ship" /\ ret[1].key = "ThrusterForce"
    /\ ret[1].value = Nudge
    /\ order["ship"] = <<"ThrusterForce", "GravityForce">>
    /\ extForce["ship"] = AddForce(Push, Pull)

C3_DefaultReturned ==
    IsGet(ret) /\ ret[1].key \notin WrittenKeys(ret[1].body)
        => /\ ret[1].value = ExternalForce(Vec3(FZero, FZero, FZero),
                                           Vec3(FZero, FZero, FZero))
           /\ ~ContainsKey(forces[ret[1].body], ret[1].key)
           /\ KeysOf(forces[ret[1].body]) = WrittenKeys(ret[1].body)

\* C3: get(k) for a key never set on the ledger returns the zero contribution,
\* creates no entry for k, and every get call leaves every ledger (hence every
\* later combine) exactly as it was.
C3_GetOfUnsetKey ==
    /\ []C3_DefaultReturned
    /\ [][IsGet(ret') => forces' = forces]_vars

\* A get of a key that was never set, on a ledger that holds other entries.
C3_Witness ==
    /\ IsGet(ret) /\ ret[1].key \notin WrittenKeys(ret[1].body)
    /\ Len(forces[ret[1].body]) = 2
    /\ ret[1].value = ExternalForceDefault

\* C4 as stated: combine() is the sum over the current entries, one term per key
\* (its latest value), zero for an empty ledger, and the same for every order of
\* the entries.
C4_SameForEveryOrder ==
    \A b \in DOMAIN forces :
        /\ combine(forces[b]) = SumWritten(order[b], written[b])
        /\ forces[b] = <<>> => combine(forces[b]) = ExternalForceDefault
        /\ \A p \in Reorderings(forces[b]) : combine(p) = combine(forces[b])

\* C4 amended: combine() is the float sum, taken in the order the keys were first
\* set, of one term per key (its latest value), zero for an empty ledger; it is
\* the same for every order of the entries when the ledger holds at most two.
C4_SameForTwoEntries ==
    \A b \in DOMAIN forces :
        /\ combine(forces[b]) = SumWritten(order[b], written[b])
        /\ forces[b] = <<>> => combine(forces[b]) = ExternalForceDefault
        /\ Len(forces[b]) <= 2 =>
              \A p \in Reorderings(forces[b]) : combine(p) = combine(forces[b])

\* The ship's ledger holds two different entries whose sum is not zero, the
\* probe's ledger is empty, and both have just been combined.
C4_Witness ==
    /\ IsUpdate(ret)
    /\ Len(forces["ship"]) = 2
    /\ forces["ship"][1].value # forces["ship"][2].value
    /\ extForce["ship"] # ExternalForceDefault
    /\ forces["probe"] = <<>> /\ extForce["probe"] = ExternalForceDefault

\* C5: immediately after update_external_forces has run, the ExternalForce of
\* every body that has a ledger is combine() of that body's own ledger; neither
\* the value published before (the (0, -0.5, 0) of the spawn included) nor another
\* body's ledger enters it.
C5_PublishedIsOwnCombine ==
    IsUpdate(ret) => \A b \in DOMAIN forces : extForce[b] = combine(forces[b])

\* Both bodies have entries, their sums differ, and both have just been published
\* over the forces they were spawned with.
C5_Witness ==
    /\ IsUpdate(ret)
    /\ forces["ship"] # <<>> /\ forces["probe"] # <<>>
    /\ extForce["ship"] # extForce["probe"]
    /\ extForce["ship"] # SpawnForce /\ extForce["probe"] # SpawnForce

----------------------------------------------------------------------------
(* Properties of the Update schedule, checked under SpecFrame              *)

\* The systems that ran before position i of the current frame.
RanBefore(i) == {ran[j] : j \in 1..(i - 1)}

\* C1: in every frame, under every order the schedule permits, the aggregation
\* step update_external_forces runs only after both contributors, fire_thrusters
\* and apply_gravity, have written their entries of that frame.
C1_AggregationAfterContributors ==
    \A i \in 1..Len(ran) :
        ran[i] = "update_external_forces"
            => {"fire_thrusters", "apply_gravity"} \subseteq RanBefore(i)

\* The consequence C1 draws: once the three systems of a frame have run, the
\* published force is the sum of the entries of that frame.
PublishedIsCurrent ==
    Len(ran) = 3 => extForce["ship"] = combine(forces["ship"])

\* The sum of the pulls of the attractors from position i on.
RECURSIVE TotalPull(_, _)
TotalPull(i, ship) ==
    IF i > Len(attractors) THEN Vec3ZERO
    ELSE VecAdd(GravityOf(attractors[i], ship).force, TotalPull(i + 1, ship))

\* C9: with several attractors, after apply_gravity and the aggregation that
\* follows it the ship's combined force is the thruster entry plus the pull of
\* every attractor.
C9_EveryAttractorPulls ==
    (Len(ran) > 0 /\ ran[Len(ran)] = "update_external_forces")
        => extForce["ship"].force =
              VecAdd(get(forces["ship"], "ThrusterForce").force,
                     TotalPull(1, translation))

NoKeyHeld == pressed \cap KeyCodes = {}

C10_IdleThrusterIsZero ==
    (HasRun("fire_thrusters") /\ NoKeyHeld)
        => /\ ContainsKey(forces["ship"], "ThrusterForce")
           /\ get(forces["ship"], "ThrusterForce") =
                 ExternalForce(Vec3(FZero, FZero, FZero), Vec3(FZero, FZero, FZero))

\* C10: no step removes a ledger entry, and in a frame where neither Space nor a
\* rotation key is held the thruster entry is present with zero force and zero
\* torque once fire_thrusters has run, whatever it held before.
C10_EntriesStayAndIdleIsZero ==
    /\ []C10_IdleThrusterIsZero
    /\ [][\A b \in DOMAIN forces : KeysOf(forces[b]) \subseteq KeysOf(forces'[b])]_vars

\* No key is held, fire_thrusters has run and zeroed the entry, and the force
\* published in the frame before still carries a thruster torque.
C10_Witness ==
    /\ NoKeyHeld
    /\ ran = <<"fire_thrusters">>
    /\ get(forces["ship"], "ThrusterForce") = ExternalForceDefault
    /\ extForce["ship"].torque # Vec3ZERO

----------------------------------------------------------------------------
(* Properties of Orbit::from_pos_dir, checked under SpecOrbit              *)

Solved == args # <<>> /\ orbit # <<>>

NonZero(v) == v # DVec2(FZero, FZero)

\* v^2 * r = 2 * G * m for the arguments, as the solver computes both sides.
ZeroDenominator ==
    Denominator(args[1].m, Length2(args[1].pos), Length2(args[1].v)) = FZero

\* C6: for m > 0 and a nonzero position with v^2 r = 2 G m the solver reports the
\* case ParabolicDenominatorZero and returns no infinite semi-major axis nor a
\* value derived from one.
C6_ParabolicIsReported ==
    (Solved /\ args[1].m.s > 0 /\ NonZero(args[1].pos) /\ ZeroDenominator)
        => /\ orbit[1].type = "ParabolicDenominatorZero"
           /\ ~(orbit[1].type = "Orbit" /\ ~IsFinite(orbit[1].semi_major_axis))
           /\ ~(orbit[1].type = "Orbit" /\ ~IsFinite(orbit[1].eccentricity))

\* C7: for velocity (0, 0), m > 0 and a nonzero position the solver reports a
\* degenerate case or returns eccentricity exactly 1, never NaN and never a
\* negative eccentricity.
C7_RadialFallIsDefined ==
    (Solved /\ args[1].m.s > 0 /\ NonZero(args[1].pos) /\ ~NonZero(args[1].v))
        => \/ orbit[1].type # "Orbit"
           \/ orbit[1].eccentricity = One

\* A bound state with the position on the x axis and the velocity on the y axis.
BoundPerpendicular ==
    /\ args[1].m.s > 0
    /\ args[1].pos[1] # FZero /\ args[1].pos[2] = FZero
    /\ args[1].v[1] = FZero /\ args[1].v[2] # FZero
    /\ FLt(FZero, Denominator(args[1].m, Length2(args[1].pos), Length2(args[1].v)))

\* The arguments of tests::geostationary.
Geostationary ==
    args = <<[m |-> Dec(5972, 21), pos |-> DVec2(Dec(42, 3), FZero),
              v |-> DVec2(FZero, Dec(3074, 0))]>>

\* The assertions of tests::geostationary.
GeostationaryAsserts ==
    (Solved /\ Geostationary)
        => /\ FLt(FSub(Dec(21, 3), orbit[1].semi_major_axis), Dec(2, 1))
           /\ FLt(FSub(One, orbit[1].eccentricity), Dec(1, -1))
           /\ FLt(FSub(orbit[1].eccentricity, One), Dec(1, -1))

\* C8: for a bound state with perpendicular position and velocity the solver
\* returns a finite positive semi-major axis G m r / (2 G m - v^2 r) and a finite
\* eccentricity within [0, 1.1]; for the geostationary arguments the semi-major
\* axis is above 20980 and the eccentricity within 0.1 of 1.
C8_BoundOrbitIsFinite ==
    /\ (Solved /\ BoundPerpendicular)
          => /\ IsFinite(orbit[1].semi_major_axis)
             /\ orbit[1].semi_major_axis.s > 0
             /\ orbit[1].semi_major_axis =
                   FDiv(FMul(FMul(G, args[1].m), Length2(args[1].pos)),
                        Denominator(args[1].m, Length2(args[1].pos),
                                    Length2(args[1].v)))
             /\ IsFinite(orbit[1].eccentricity)
             /\ FLe(FZero, orbit[1].eccentricity)
             /\ FLe(orbit[1].eccentricity, Dec(11, -1))
    /\ GeostationaryAsserts

=============================================================================
